---------------------------- MODULE Spec2Model ----------------------------
(***************************************************************************)
(* Model of the before/after copy comparer core (src/utils/textAnalysis.js *)
(* and src/utils/diff.js, both held in src/src/utils/textAnalysis.js).     *)
(*                                                                         *)
(* A text is a sequence of one-character strings.  A token or a word is a  *)
(* non-empty sequence of characters.  Numbers with one decimal are kept in *)
(* tenths, so every quantity of the model is an integer.  Arithmetic on    *)
(* fractions is exact; the code's doubles can differ from it by one unit   *)
(* in the last place kept when a value lies exactly on a rounding tie.     *)
(*                                                                         *)
(* Eight specifications share the state:                                   *)
(*   Spec         one comparison: computeDiff, step by step, and the views *)
(*   SpecMetrics  one call of analyzeText                                  *)
(*   SpecScore    one call of calculateImprovementScore                    *)
(*   SpecCalls    any sequence of calls of computeDiff and analyzeText     *)
(*   SpecSummary  one call of generateSummary                              *)
(*   SpecCompare  one run of the caller's handleCompare                    *)
(*   SpecScoreSummary  the end of handleCompare, on any metrics            *)
(*   SpecApp      the App: its handlers, clipboard writes and timers       *)
(***************************************************************************)
EXTENDS Integers, Sequences, FiniteSets, TLC

(***************************************************************************)
(* Bounds of the model.                                                    *)
(***************************************************************************)
\* longest text, in characters, that the differ is run on character by character
MaxLen == 3
\* longest text, in words, that the differ is run on (words joined by one space)
MaxWords == 4
\* longest text, in characters, that analyzeText is run on
MaxTextLen == 5
\* longest text, in characters, that handleCompare is run on, the
\* specification's example apart
MaxCompareLen == 2
\* most copies whose clipboard write or whose timer is still to come
MaxCopies == 2

(***************************************************************************)
(* Characters.                                                             *)
(***************************************************************************)
\* the characters of the model that \s matches and String.prototype.trim drops
Whitespace == {" ", "\t", "\n", "\r"}

IsWs(c) == c \in Whitespace

MinOf(S) == CHOOSE x \in S : \A y \in S : x <= y

MaxOf(S) == CHOOSE x \in S : \A y \in S : x >= y

\* end of the greedy run that starts at position p, hits being the positions
\* of the text whose character is of the run's class (p - 1: the run is empty)
RunEnd(text, p, hits) ==
  LET stops == (p..Len(text)) \ hits
  IN  IF stops = {} THEN Len(text) ELSE MinOf(stops) - 1

\* String.prototype.trim: drop the leading and the trailing whitespace
trimStart(s) ==
  SubSeq(s, RunEnd(s, 1, {q \in 1..Len(s) : IsWs(s[q])}) + 1, Len(s))

trimEnd(s) ==
  LET kept == {q \in 1..Len(s) : ~IsWs(s[q])}
  IN  IF kept = {} THEN <<>> ELSE SubSeq(s, 1, MaxOf(kept))

trim(s) == trimEnd(trimStart(s))

(***************************************************************************)
(* tokenize: text.match(/\S+|\s+/g) || []                                  *)
(***************************************************************************)
IsNotWs(c) == ~IsWs(c)

\* end of the greedy match of \S+ or of \s+ that starts at position p
runEnd(text, p, ws) ==
  IF ws THEN RunEnd(text, p, {q \in 1..Len(text) : IsWs(text[q])})
        ELSE RunEnd(text, p, {q \in 1..Len(text) : IsNotWs(text[q])})

\* the global match: the next match starts where the previous one ended
RECURSIVE matchTokens(_, _)
matchTokens(text, p) ==
  IF p > Len(text) THEN <<>>
  ELSE LET e == runEnd(text, p, IsWs(text[p]))
       IN  <<SubSeq(text, p, e)>> \o matchTokens(text, e + 1)

\* tokens.filter(t => t.trim() !== '')
isWord(t) == trim(t) # <<>>

wordsOf(tokens) == SelectSeq(tokens, isWord)

\* as if the pattern were /\S+/g: the whitespace runs are not tokens
tokenizeDropsWhitespace(text) ==
  IF text = <<>> THEN <<>> ELSE SelectSeq(matchTokens(text, 1), isWord)

tokenize(text) ==
  IF text = <<>> THEN <<>> ELSE matchTokens(text, 1)

(***************************************************************************)
(* lcsTable: the dynamic-programming table, filled row by row.             *)
(***************************************************************************)
Max(x, y) == IF x >= y THEN x ELSE y

\* Array.from({ length: m + 1 }, () => new Array(n + 1).fill(0))
zeroTable(m, n) == [r \in 0..m |-> [c \in 0..n |-> 0]]

\* as if a mismatch took the cell above, without Math.max
lcsCellWithoutMax(t, a, b, r, c) ==
  IF a[r] = b[c]
  THEN t[r - 1][c - 1] + 1
  ELSE t[r - 1][c]

\* the body of the inner loop: the value stored in dp[r][c]
lcsCell(t, a, b, r, c) ==
  IF a[r] = b[c]
  THEN t[r - 1][c - 1] + 1
  ELSE Max(t[r - 1][c], t[r][c - 1])

\* the inner loop, from cell (r, c) on; the table has the columns 0..n, so
\* that j <= n reads c \in DOMAIN t[r]
RECURSIVE lcsFillRow(_, _, _, _, _)
lcsFillRow(t, a, b, r, c) ==
  IF c \notin DOMAIN t[r] THEN t
  ELSE lcsFillRow([t EXCEPT ![r][c] = lcsCell(t, a, b, r, c)], a, b, r, c + 1)

\* the two nested loops, from cell (r, c) on; the table has the rows 0..m,
\* so that i <= m reads r \in DOMAIN t
RECURSIVE lcsFill(_, _, _, _, _)
lcsFill(t, a, b, r, c) ==
  IF r \notin DOMAIN t THEN t
  ELSE lcsFill(lcsFillRow(t, a, b, r, c), a, b, r + 1, 1)

lcsTable(a, b) == lcsFill(zeroTable(Len(a), Len(b)), a, b, 1, 1)

(***************************************************************************)
(* backtrack: one iteration of the while loop.                             *)
(***************************************************************************)
\* as if the loop were while (i > 0 && j > 0)
loopStopsWhenEitherIsZero(r, c) == r > 0 /\ c > 0

\* while (i > 0 || j > 0)
loopCondition(r, c) == r > 0 \/ c > 0

\* as if the tie went to delete: dp[i][j - 1] > dp[i - 1][j]
branchInsertOnStrictlyGreater(t, a, b, r, c) ==
  IF r > 0 /\ c > 0 /\ a[r] = b[c] THEN "equal"
  ELSE IF c > 0 /\ (r = 0 \/ t[r][c - 1] > t[r - 1][c]) THEN "insert"
  ELSE "delete"

\* as if the insert test came before the equality test
branchInsertBeforeEqual(t, a, b, r, c) ==
  IF c > 0 /\ (r = 0 \/ t[r][c - 1] >= t[r - 1][c]) THEN "insert"
  ELSE IF r > 0 /\ c > 0 /\ a[r] = b[c] THEN "equal"
  ELSE "delete"

\* the if / else if / else chain of the loop body: the branch taken at (r, c)
branch(t, a, b, r, c) ==
  IF r > 0 /\ c > 0 /\ a[r] = b[c] THEN "equal"
  ELSE IF c > 0 /\ (r = 0 \/ t[r][c - 1] >= t[r - 1][c]) THEN "insert"
  ELSE "delete"

Op(type, value) == [type |-> type, value |-> value]

\* as if the op were appended: result.push(op)
pushOp(res, op) == res \o <<op>>

\* result.unshift(op)
unshiftOp(res, op) == <<op>> \o res

(***************************************************************************)
(* getBeforeView / getAfterView: filter, then map.                         *)
(***************************************************************************)
RECURSIVE mapView(_, _)
mapView(os, hl) ==
  IF os = <<>> THEN <<>>
  ELSE <<[text |-> Head(os).value, highlighted |-> (Head(os).type = hl)]>>
         \o mapView(Tail(os), hl)

keptBefore(op) == op.type = "equal" \/ op.type = "delete"

keptAfter(op) == op.type = "equal" \/ op.type = "insert"

getBeforeView(os) == mapView(SelectSeq(os, keptBefore), "delete")

\* as if the after view highlighted what is kept, not what is inserted
getAfterViewHighlightsEqual(os) == mapView(SelectSeq(os, keptAfter), "equal")

getAfterView(os) == mapView(SelectSeq(os, keptAfter), "insert")

(***************************************************************************)
(* Characters of the metrics engine.                                       *)
(***************************************************************************)
\* a string as a sequence of one-character strings
Chars(str) == [k \in 1..Len(str) |-> SubSeq(str, k, k)]

LowerCase == "abcdefghijklmnopqrstuvwxyz"

UpperCase == "ABCDEFGHIJKLMNOPQRSTUVWXYZ"

LowerLetters == {SubSeq(LowerCase, k, k) : k \in 1..Len(LowerCase)}

UpperLetters == {SubSeq(UpperCase, k, k) : k \in 1..Len(UpperCase)}

Digits == {"0", "1", "2", "3", "4", "5", "6", "7", "8", "9"}

\* [a-zA-Z]
IsLetter(c) == c \in LowerLetters \/ c \in UpperLetters

\* \w
IsWordChar(c) == IsLetter(c) \/ c \in Digits \/ c = "_"

\* [a-zA-Z'-]
IsWordPart(c) == IsLetter(c) \/ c = "'" \/ c = "-"

\* [.!?]
IsEnder(c) == c \in {".", "!", "?"}

\* [aeiouy]
IsVowel(c) == c \in {"a", "e", "i", "o", "u", "y"}

lowerChar(c) ==
  IF c \in UpperLetters
  THEN LET k == CHOOSE q \in 1..Len(UpperCase) : SubSeq(UpperCase, q, q) = c
       IN  SubSeq(LowerCase, k, k)
  ELSE c

\* String.prototype.toLowerCase
toLowerCase(s) == [k \in 1..Len(s) |-> lowerChar(s[k])]

\* String.prototype.endsWith
endsWith(s, suffix) ==
  /\ Len(s) >= Len(suffix)
  /\ SubSeq(s, Len(s) - Len(suffix) + 1, Len(s)) = suffix

\* \b between the characters at positions p and p + 1 (p = 0: the start)
atBoundary(text, p) ==
  (p >= 1 /\ p <= Len(text) /\ IsWordChar(text[p]))
    # (p + 1 >= 1 /\ p + 1 <= Len(text) /\ IsWordChar(text[p + 1]))

\* !text.trim()
isBlank(text) == trim(text) = <<>>

\* Math.round(n / d) for d > 0: the nearest integer, a half going up
RoundDiv(n, d) == (2 * n + d) \div (2 * d)

(***************************************************************************)
(* countSyllables                                                          *)
(***************************************************************************)
isLowerLetter(c) == c \in LowerLetters

\* word.match(/[aeiouy]+/g): the number of maximal runs of vowels, each
\* counted where it starts
vowelGroups(w) ==
  Cardinality({q \in 1..Len(w) :
                 IsVowel(w[q]) /\ (q = 1 \/ ~IsVowel(w[q - 1]))})

silentE(w, count) ==
  IF endsWith(w, Chars("e")) /\ ~endsWith(w, Chars("le")) /\ count > 1
  THEN count - 1 ELSE count

suffixEs(w, count) ==
  IF /\ endsWith(w, Chars("es"))
     /\ ~endsWith(w, Chars("tes"))
     /\ ~endsWith(w, Chars("ses"))
     /\ count > 1
  THEN count - 1 ELSE count

suffixEd(w, count) ==
  IF /\ endsWith(w, Chars("ed"))
     /\ ~endsWith(w, Chars("ted"))
     /\ ~endsWith(w, Chars("ded"))
     /\ count > 1
  THEN count - 1 ELSE count

countSyllables(word) ==
  LET w == SelectSeq(toLowerCase(word), isLowerLetter)
      groups == vowelGroups(w)
  IN  IF w = <<>> THEN 0
      ELSE IF Len(w) <= 2 THEN 1
      ELSE IF groups = 0 THEN 1
      ELSE Max(1, suffixEd(w, suffixEs(w, silentE(w, groups))))

(***************************************************************************)
(* splitWords: text.match(/\b[a-zA-Z'-]+\b/g) || []                        *)
(***************************************************************************)
\* end of the greedy run of [a-zA-Z'-] that starts at position p (p - 1: none)
wordRunEnd(text, p) ==
  RunEnd(text, p, {q \in 1..Len(text) : IsWordPart(text[q])})

\* backtracking: the last position e in p..hi with a \b after it (0: none)
lastBoundary(text, p, hi) ==
  LET ends == {e \in p..hi : atBoundary(text, e)}
  IN  IF ends = {} THEN 0 ELSE MaxOf(ends)

\* end of the match of \b[a-zA-Z'-]+\b that starts at position p (0: no match)
wordMatchEnd(text, p) ==
  IF atBoundary(text, p - 1)
  THEN lastBoundary(text, p, wordRunEnd(text, p))
  ELSE 0

\* the global match: the leftmost match from position p on, then the matches
\* from its end on
RECURSIVE matchWords(_, _)
matchWords(text, p) ==
  LET starts == {q \in p..Len(text) : wordMatchEnd(text, q) # 0}
  IN  IF starts = {} THEN <<>>
      ELSE LET q == MinOf(starts)
               e == wordMatchEnd(text, q)
           IN  <<SubSeq(text, q, e)>> \o matchWords(text, e + 1)

splitWords(text) ==
  IF isBlank(text) THEN <<>> ELSE matchWords(text, 1)

(***************************************************************************)
(* splitSentences: text.split(/[.!?]+\s*/).filter(s => s.trim().length > 0)*)
(***************************************************************************)
\* end of the greedy match of [.!?]+ that starts at position p
enderRunEnd(text, p) ==
  RunEnd(text, p, {q \in 1..Len(text) : IsEnder(text[q])})

\* end of the greedy match of \s* that starts at position p (p - 1: empty)
wsRunEnd(text, p) ==
  RunEnd(text, p, {q \in 1..Len(text) : IsWs(text[q])})

\* String.prototype.split: the pieces between the matches of the separator,
\* from position p on; the last piece runs to the end of the text
RECURSIVE splitPieces(_, _)
splitPieces(text, p) ==
  LET seps == {q \in p..Len(text) : IsEnder(text[q])}
  IN  IF seps = {} THEN <<SubSeq(text, p, Len(text))>>
      ELSE LET q == MinOf(seps)
           IN  <<SubSeq(text, p, q - 1)>>
                 \o splitPieces(text, wsRunEnd(text, enderRunEnd(text, q) + 1) + 1)

\* as if the filter kept the empty and the blank pieces too
keepsBlankPieces(piece) == Len(trim(piece)) >= 0

notBlank(piece) == Len(trim(piece)) > 0

splitSentences(text) ==
  IF isBlank(text) THEN <<>>
  ELSE SelectSeq(splitPieces(text, 1), notBlank)

(***************************************************************************)
(* countPassiveVoice: the matches of                                       *)
(*   /\b(is|was|...|must be)\s+(\w+ed|(\w+en))\b/gi                        *)
(***************************************************************************)
\* as if "be" alone were among the auxiliaries
AuxiliariesWithBe ==
  {Chars(x) : x \in {"is", "was", "were", "been", "being", "are", "am", "be",
                     "has been", "have been", "had been", "will be",
                     "shall be", "could be", "would be", "might be",
                     "must be"}}

Auxiliaries ==
  {Chars(x) : x \in {"is", "was", "were", "been", "being", "are", "am",
                     "has been", "have been", "had been", "will be",
                     "shall be", "could be", "would be", "might be",
                     "must be"}}

\* end of the greedy run of \w that starts at position p (p - 1: none)
wordCharRunEnd(text, p) ==
  RunEnd(text, p, {q \in 1..Len(text) : IsWordChar(text[q])})

\* the text reads aux at position p, whatever the case of its letters
readsAt(text, p, aux) ==
  /\ p + Len(aux) - 1 <= Len(text)
  /\ toLowerCase(SubSeq(text, p, p + Len(aux) - 1)) = aux

\* \w+ed or \w+en, up to the \b that ends the run of \w the word is in
isParticiple(w) ==
  /\ Len(w) >= 3
  /\ \/ endsWith(toLowerCase(w), Chars("ed"))
     \/ endsWith(toLowerCase(w), Chars("en"))

\* end of the match that starts with aux at position p (0: no match)
passiveEndWith(text, p, aux) ==
  IF ~readsAt(text, p, aux) THEN 0
  ELSE LET q == p + Len(aux)
           w == wsRunEnd(text, q)
           e == wordCharRunEnd(text, w + 1)
       IN  IF w >= q /\ isParticiple(SubSeq(text, w + 1, e)) THEN e ELSE 0

\* end of the match that starts at position p (0: no match); no auxiliary is
\* the start of another, so at most one of them matches
passiveMatchEnd(text, p) ==
  IF ~atBoundary(text, p - 1) THEN 0
  ELSE LET ends == {passiveEndWith(text, p, aux) : aux \in Auxiliaries} \ {0}
       IN  IF ends = {} THEN 0 ELSE CHOOSE e \in ends : TRUE

\* the number of matches from position p on: the leftmost one, then those
\* from its end on
RECURSIVE matchPassive(_, _)
matchPassive(text, p) ==
  LET starts == {q \in p..Len(text) : passiveMatchEnd(text, q) # 0}
  IN  IF starts = {} THEN 0
      ELSE 1 + matchPassive(text, passiveMatchEnd(text, MinOf(starts)) + 1)

countPassiveVoice(text) == matchPassive(text, 1)

(***************************************************************************)
(* countAdverbs                                                            *)
(***************************************************************************)
nonAdverbs ==
  {Chars(x) : x \in {"only", "family", "early", "daily", "holy", "ugly",
                     "lonely", "friendly", "lovely", "likely", "unlikely",
                     "rally", "belly", "bully", "fly", "ally", "apply",
                     "supply", "reply", "july", "italy", "multiply",
                     "butterfly", "jelly", "lily", "assembly", "anomaly",
                     "homily", "melancholy", "monopoly", "poly", "curly"}}

\* as if the test of the exclusion set were inverted
isAdverbOnlyIfExcluded(w) ==
  LET lower == toLowerCase(w)
  IN  endsWith(lower, Chars("ly")) /\ Len(lower) > 3 /\ lower \in nonAdverbs

isAdverb(w) ==
  LET lower == toLowerCase(w)
  IN  endsWith(lower, Chars("ly")) /\ Len(lower) > 3 /\ lower \notin nonAdverbs

countAdverbs(text) == Len(SelectSeq(splitWords(text), isAdverb))

(***************************************************************************)
(* analyzeText.  avgSentenceLength, fleschKincaidGrade and                 *)
(* fleschReadingEase are kept in tenths: the code rounds each to one       *)
(* decimal.  The arithmetic is exact, on fractions n / d with d > 0.       *)
(***************************************************************************)
\* as if the early return gave the sentence count its floor of 1
zeroMetricsButOneSentence ==
  [wordCount |-> 0, sentenceCount |-> 1, avgSentenceLength |-> 0,
   fleschKincaidGrade |-> 0, fleschReadingEase |-> 0, readingTime |-> 0,
   passiveVoiceCount |-> 0, adverbCount |-> 0, syllableCount |-> 0]

zeroMetrics ==
  [wordCount |-> 0, sentenceCount |-> 0, avgSentenceLength |-> 0,
   fleschKincaidGrade |-> 0, fleschReadingEase |-> 0, readingTime |-> 0,
   passiveVoiceCount |-> 0, adverbCount |-> 0, syllableCount |-> 0]

\* words.reduce((sum, w) => sum + countSyllables(w), 0)
RECURSIVE sumSyllables(_)
sumSyllables(ws) ==
  IF ws = <<>> THEN 0 ELSE countSyllables(Head(ws)) + sumSyllables(Tail(ws))

\* 0.39 * avgSentenceLength + 11.8 * avgSyllablesPerWord - 15.59, times
\* gradeDen(wc, sc)
gradeNum(wc, sc, syl) == 39 * wc * wc + 1180 * syl * sc - 1559 * sc * wc

gradeDen(wc, sc) == 100 * sc * wc

\* 206.835 - 1.015 * avgSentenceLength - 84.6 * avgSyllablesPerWord, times
\* easeDen(wc, sc)
easeNum(wc, sc, syl) == 206835 * sc * wc - 1015 * wc * wc - 84600 * syl * sc

easeDen(wc, sc) == 1000 * sc * wc

\* Math.round(Math.max(0, fleschKincaidGrade) * 10), the grade being n / d
gradeTenths(n, d) == IF n < 0 THEN 0 ELSE RoundDiv(10 * n, d)

\* as if the ease were rounded without Math.min(100, ...)
easeTenthsNoUpperClamp(n, d) == IF n < 0 THEN 0 ELSE RoundDiv(10 * n, d)

\* Math.round(Math.min(100, Math.max(0, fleschReadingEase)) * 10), the ease
\* being n / d
easeTenths(n, d) ==
  IF n < 0 THEN 0
  ELSE IF n > 100 * d THEN 1000
  ELSE RoundDiv(10 * n, d)

\* as if the guard were if (!text), which lets whitespace-only text through
takesEarlyReturnOnEmptyOnly(text) == text = <<>>

\* if (!text || !text.trim())
takesEarlyReturn(text) == text = <<>> \/ isBlank(text)

\* analyzeText past its early return
analyzeWords(text) ==
  LET words == splitWords(text)
      sentences == splitSentences(text)
      wordCount == Len(words)
      sentenceCount == Max(Len(sentences), 1)
      syllableCount == sumSyllables(words)
  IN  [wordCount |-> wordCount,
       sentenceCount |-> sentenceCount,
       avgSentenceLength |-> RoundDiv(10 * wordCount, sentenceCount),
       fleschKincaidGrade |->
         IF wordCount > 0
         THEN gradeTenths(gradeNum(wordCount, sentenceCount, syllableCount),
                          gradeDen(wordCount, sentenceCount))
         ELSE gradeTenths(0, 1),
       fleschReadingEase |->
         IF wordCount > 0
         THEN easeTenths(easeNum(wordCount, sentenceCount, syllableCount),
                         easeDen(wordCount, sentenceCount))
         ELSE easeTenths(0, 1),
       readingTime |-> RoundDiv(60 * wordCount, 200),
       passiveVoiceCount |-> countPassiveVoice(text),
       adverbCount |-> countAdverbs(text),
       syllableCount |-> syllableCount]

analyzeText(text) ==
  IF takesEarlyReturn(text) THEN zeroMetrics ELSE analyzeWords(text)

(***************************************************************************)
(* calculateImprovementScore.  A fraction is a pair <<n, d>> with d > 0.   *)
(***************************************************************************)
RECURSIVE Gcd(_, _)
Gcd(x, y) == IF y = 0 THEN x ELSE Gcd(y, x % y)

\* the sum of two fractions, over the least common denominator
addFrac(x, y) ==
  LET d == (x[2] \div Gcd(x[2], y[2])) * y[2]
  IN  <<x[1] * (d \div x[2]) + y[1] * (d \div y[2]), d>>

\* weights, in hundredths: the result is Math.round(totalScore * 100)
weights ==
  [fleschReadingEase |-> 30, fleschKincaidGrade |-> 25, avgSentenceLength |-> 20,
   passiveVoiceCount |-> 15, adverbCount |-> 10]

\* change * weight, times 100, for a metric where higher is better
higherIsBetter(w, before, after) ==
  IF before > 0 THEN <<w * (after - before), before>> ELSE <<0, 1>>

\* change * weight, times 100, for a metric where lower is better
lowerIsBetter(w, before, after) ==
  IF before > 0 THEN <<w * (before - after), before>> ELSE <<0, 1>>

\* as if the penalty for introducing passive voice grew with the after count
passiveTermPenaltyGrowsWithAfter(w, before, after) ==
  IF before > 0 THEN <<w * (before - after), before>>
  ELSE IF after = 0 THEN <<0, 1>>
  ELSE <<0 - w * after, 2>>

passiveTerm(w, before, after) ==
  IF before > 0 THEN <<w * (before - after), before>>
  ELSE IF after = 0 THEN <<0, 1>>
  ELSE <<0 - w, 2>>

\* as if the penalty were taken whenever the before count is 0
adverbTermPenaltyWheneverBeforeIsZero(w, before, after) ==
  IF before > 0 THEN <<w * (before - after), before>>
  ELSE <<0 - w, 2>>

adverbTerm(w, before, after) ==
  IF before > 0 THEN <<w * (before - after), before>>
  ELSE IF after > 0 THEN <<0 - w, 2>>
  ELSE <<0, 1>>

\* totalScore * 100
totalScore(bm, am) ==
  addFrac(higherIsBetter(weights.fleschReadingEase,
                         bm.fleschReadingEase, am.fleschReadingEase),
  addFrac(lowerIsBetter(weights.fleschKincaidGrade,
                        bm.fleschKincaidGrade, am.fleschKincaidGrade),
  addFrac(lowerIsBetter(weights.avgSentenceLength,
                        bm.avgSentenceLength, am.avgSentenceLength),
  addFrac(passiveTerm(weights.passiveVoiceCount,
                      bm.passiveVoiceCount, am.passiveVoiceCount),
          adverbTerm(weights.adverbCount, bm.adverbCount, am.adverbCount)))))

\* as if the guard were beforeMetrics.wordCount === 0 && afterMetrics.wordCount === 0
returnsZeroWhenBothHaveNoWords(bm, am) == bm.wordCount = 0 /\ am.wordCount = 0

\* if (beforeMetrics.wordCount === 0 || afterMetrics.wordCount === 0) return 0
returnsZero(bm, am) == bm.wordCount = 0 \/ am.wordCount = 0

calculateImprovementScore(bm, am) ==
  IF returnsZero(bm, am) THEN 0
  ELSE LET t == totalScore(bm, am) IN RoundDiv(t[1], t[2])

(***************************************************************************)
(* generateSummary.  The summary is a string; a number with one decimal,   *)
(* kept in tenths, is written as JavaScript writes it.                     *)
(***************************************************************************)
\* `${x}` for a number x >= 0 with one decimal, given in tenths
tenthsToString(n) ==
  IF n % 10 = 0 THEN ToString(n \div 10)
  ELSE ToString(n \div 10) \o "." \o ToString(n % 10)

upperChar(c) ==
  IF c \in LowerLetters
  THEN LET k == CHOOSE q \in 1..Len(LowerCase) : SubSeq(LowerCase, q, q) = c
       IN  SubSeq(UpperCase, k, k)
  ELSE c

\* s.charAt(0).toUpperCase() + s.slice(1)
capitalize(s) == upperChar(SubSeq(s, 1, 1)) \o SubSeq(s, 2, Len(s))

\* Array.prototype.join
RECURSIVE join(_, _)
join(parts, sep) ==
  IF parts = <<>> THEN ""
  ELSE IF Len(parts) = 1 THEN parts[1]
  ELSE parts[1] \o sep \o join(Tail(parts), sep)

\* as if any drop of the word count made the revision more concise
lengthObservationOnAnyChange(bm, am) ==
  LET wordDiff == am.wordCount - bm.wordCount
  IN  IF wordDiff < 0 THEN <<"Your revision is more concise">>
      ELSE IF wordDiff > 0 THEN <<"Your revision is longer">>
      ELSE <<>>

lengthObservation(bm, am) ==
  LET wordDiff == am.wordCount - bm.wordCount
  IN  IF wordDiff < -10 THEN <<"Your revision is more concise">>
      ELSE IF wordDiff > 10 THEN <<"Your revision is longer">>
      ELSE <<>>

\* gradeDiff < -1 and gradeDiff > 1, the grades being in tenths
gradeObservation(bm, am) ==
  LET gradeDiff == am.fleschKincaidGrade - bm.fleschKincaidGrade
      fromTo == tenthsToString(bm.fleschKincaidGrade) \o " to "
                  \o tenthsToString(am.fleschKincaidGrade) \o ")"
  IN  IF gradeDiff < -10
      THEN <<"easier to read (grade level dropped from " \o fromTo>>
      ELSE IF gradeDiff > 10
      THEN <<"more complex (grade level rose from " \o fromTo>>
      ELSE <<>>

\* sentDiff < -3 and sentDiff > 3, the lengths being in tenths
sentenceObservation(bm, am) ==
  LET sentDiff == am.avgSentenceLength - bm.avgSentenceLength
  IN  IF sentDiff < -30 THEN <<"uses shorter sentences">>
      ELSE IF sentDiff > 30 THEN <<"has longer sentences">>
      ELSE <<>>

passiveObservation(bm, am) ==
  LET passiveDiff == am.passiveVoiceCount - bm.passiveVoiceCount
  IN  IF passiveDiff < 0 THEN <<"uses more active voice">>
      ELSE IF passiveDiff > 0 THEN <<"introduces more passive voice">>
      ELSE <<>>

adverbObservation(bm, am) ==
  LET adverbDiff == am.adverbCount - bm.adverbCount
  IN  IF adverbDiff < -2 THEN <<"cuts unnecessary adverbs">>
      ELSE IF adverbDiff > 2 THEN <<"adds more adverbs">>
      ELSE <<>>

\* the observations, in the order they are pushed
observationsOf(bm, am) ==
  lengthObservation(bm, am) \o gradeObservation(bm, am)
    \o sentenceObservation(bm, am) \o passiveObservation(bm, am)
    \o adverbObservation(bm, am)

\* the first sentence of the summary, for at least one observation
buildSummary(observations) ==
  LET first == capitalize(observations[1])
      rest == Tail(observations)
  IN  (IF rest = <<>> THEN first
       ELSE IF Len(rest) = 1 THEN first \o " and " \o rest[1]
       ELSE first \o ", " \o join(SubSeq(rest, 1, Len(rest) - 1), ", ")
              \o ", and " \o rest[Len(rest)])
        \o "."

strongerRemark == " Overall, this is a stronger version for a wider audience."

simplifyRemark == " Consider simplifying sentences and using more direct language."

sameRemark == " The readability is roughly the same as the original."

\* as if the thresholds of the recommendation were >= 5 and <= -5
recommendationFromFive(score) ==
  IF score >= 5 THEN strongerRemark
  ELSE IF score <= -5 THEN simplifyRemark
  ELSE sameRemark

recommendation(score) ==
  IF score > 5 THEN strongerRemark
  ELSE IF score < -5 THEN simplifyRemark
  ELSE sameRemark

\* as if the tip were added from an average of 20 words on
sentenceTipFromTwenty(am) ==
  IF am.avgSentenceLength >= 200
  THEN " Tip: Your average sentence is " \o tenthsToString(am.avgSentenceLength)
         \o " words. Consider breaking up sentences longer than 20 words."
  ELSE ""

\* afterMetrics.avgSentenceLength > 20, the length being in tenths
sentenceTip(am) ==
  IF am.avgSentenceLength > 200
  THEN " Tip: Your average sentence is " \o tenthsToString(am.avgSentenceLength)
         \o " words. Consider breaking up sentences longer than 20 words."
  ELSE ""

enterTextMessage == "Enter text in both fields to see an analysis."

similarMessage ==
  "The two versions are very similar in readability. The differences are minimal."

generateSummary(bm, am, score) ==
  IF bm.wordCount = 0 \/ am.wordCount = 0 THEN enterTextMessage
  ELSE IF observationsOf(bm, am) = <<>> THEN similarMessage
  ELSE buildSummary(observationsOf(bm, am)) \o recommendation(score)
         \o sentenceTip(am)

(***************************************************************************)
(* The inputs.                                                             *)
(***************************************************************************)
DiffChars == {"a", "b", " ", "\n"}

SeqsUpTo(S, n) == UNION {[1..k -> S] : k \in 0..n}

RECURSIVE joinWords(_)
joinWords(ws) ==
  IF ws = <<>> THEN <<>>
  ELSE IF Len(ws) = 1 THEN Head(ws)
  ELSE Head(ws) \o <<" ">> \o joinWords(Tail(ws))

\* the texts the differ is run on
DiffTexts ==
  SeqsUpTo(DiffChars, MaxLen)
    \cup {joinWords(ws) : ws \in SeqsUpTo({<<"a">>, <<"b">>}, MaxWords)}

MetricChars == {"a", "b", ".", " ", "\t"}

\* the examples of the specification's section 8
ExampleTexts ==
  {Chars("Cat."),
   Chars("It should be noted that our approach is fundamentally different."),
   Chars("Our approach is different.")}

\* texts with digits, which are of \w and not of [a-zA-Z'-]
DigitTexts ==
  {Chars("24-7"), Chars("Open 24-7."), Chars("1'2 a"), Chars("a1b"),
   Chars("1. 2")}

\* the texts analyzeText is run on
MetricTexts ==
  SeqsUpTo(MetricChars, MaxTextLen) \cup ExampleTexts \cup DigitTexts

\* the metrics calculateImprovementScore is run on: any values, also ones
\* analyzeText does not return together
ScoreMetrics ==
  [wordCount : {0, 5, 20},
   sentenceCount : {1},
   avgSentenceLength : {0, 120, 250},
   fleschKincaidGrade : {0, 60},
   fleschReadingEase : {0, 500, 1000},
   readingTime : {2},
   passiveVoiceCount : {0, 1, 2},
   adverbCount : {0, 3},
   syllableCount : {7}]

\* the before text and the after text of the specification's end-to-end example
ExampleBefore ==
  Chars("It should be noted that our approach is fundamentally different.")

ExampleAfter == Chars("Our approach is different.")

\* the texts handleCompare is run on
CompareTexts ==
  SeqsUpTo(MetricChars, MaxCompareLen) \cup {ExampleBefore, ExampleAfter}

\* the metrics generateSummary is run on: values on each side of and on its
\* thresholds (a word count difference of 10, a grade difference of 1, a
\* sentence length difference of 3 and a length of 20, an adverb difference
\* of 2)
SummaryMetrics ==
  [wordCount : {0, 5, 15, 16},
   sentenceCount : {1},
   avgSentenceLength : {170, 200, 201},
   fleschKincaidGrade : {50, 60, 61},
   fleschReadingEase : {500},
   readingTime : {2},
   passiveVoiceCount : {0, 1},
   adverbCount : {0, 2, 3},
   syllableCount : {7}]

\* the scores generateSummary is run on
SummaryScores == {-6, -5, 0, 5, 6}

\* the texts of a sequence of calls
CallTexts == {Chars(""), Chars(" "), Chars("a b."), Chars("b a b")}

NoCall == [made |-> FALSE]

\* results when it is null
NoResults == [set |-> FALSE]

(***************************************************************************)
(* State.                                                                  *)
(***************************************************************************)
VARIABLES
  pc,            \* where the caller is
  beforeText,    \* the arguments of computeDiff
  afterText,
  beforeTokens,  \* the locals of computeDiff
  afterTokens,
  beforeWords,
  afterWords,
  dp,
  i,             \* the locals of backtrack
  j,
  result,
  ops,           \* what computeDiff returned
  beforeView,    \* what getBeforeView and getAfterView returned
  afterView,
  text,          \* the argument of analyzeText
  metrics,       \* what analyzeText returned
  beforeMetrics, \* the arguments of calculateImprovementScore
  afterMetrics,
  improvementScore,  \* what calculateImprovementScore returned
  summary,       \* what generateSummary returned
  firstDiff,     \* history: the first call of computeDiff and what it returned
  firstMetrics,  \* history: the first call of analyzeText and what it returned
  otherSince,    \* history: since the first call of computeDiff returned,
                 \* another call than that one was made
  results,       \* App: what handleCompare set, NoResults for null
  copied,        \* App: the flag behind the "Copied!" label
  writesInFlight,  \* App: the clipboard writes handleCopyResults awaits
  timersPending,   \* App: the 2000 ms timers not yet fired
  resetStands    \* history: handleReset has run, and handleCopyResults
                 \* has not been started since

diffVars == <<beforeText, afterText, beforeTokens, afterTokens, beforeWords,
              afterWords, dp, i, j, result, ops, beforeView, afterView>>

metricVars == <<text, metrics>>

scoreVars == <<beforeMetrics, afterMetrics, improvementScore, summary>>

historyVars == <<firstDiff, firstMetrics, otherSince>>

appVars == <<results, copied, writesInFlight, timersPending, resetStands>>

vars == <<pc, diffVars, metricVars, scoreVars, historyVars, appVars>>

\* as if result were kept between the calls
staleResult == result

\* const result = []
newResult == <<>>

DiffIdle ==
  /\ beforeTokens = <<>>
  /\ afterTokens = <<>>
  /\ beforeWords = <<>>
  /\ afterWords = <<>>
  /\ dp = zeroTable(0, 0)
  /\ i = 0
  /\ j = 0
  /\ result = <<>>
  /\ ops = <<>>
  /\ beforeView = <<>>
  /\ afterView = <<>>

MetricsIdle == text = <<>> /\ metrics = zeroMetrics

ScoreIdle ==
  /\ beforeMetrics = zeroMetrics
  /\ afterMetrics = zeroMetrics
  /\ improvementScore = 0
  /\ summary = ""

HistoryIdle == firstDiff = NoCall /\ firstMetrics = NoCall /\ otherSince = FALSE

\* useState(null), useState(false); no copy was started, no Reset has run
AppIdle ==
  /\ results = NoResults
  /\ copied = FALSE
  /\ writesInFlight = 0
  /\ timersPending = 0
  /\ resetStands = FALSE

(***************************************************************************)
(* One comparison: computeDiff, then the two views.                        *)
(***************************************************************************)
Init ==
  /\ pc = "call"
  /\ beforeText \in DiffTexts
  /\ afterText \in DiffTexts
  /\ DiffIdle
  /\ MetricsIdle
  /\ ScoreIdle
  /\ HistoryIdle
  /\ AppIdle

\* computeDiff up to the call of backtrack, and backtrack up to its loop
ComputeDiff ==
  /\ pc = "call"
  /\ beforeTokens' = tokenize(beforeText)
  /\ afterTokens' = tokenize(afterText)
  /\ beforeWords' = wordsOf(beforeTokens')
  /\ afterWords' = wordsOf(afterTokens')
  /\ dp' = lcsTable(beforeWords', afterWords')
  /\ result' = newResult
  /\ i' = Len(beforeWords')
  /\ j' = Len(afterWords')
  /\ pc' = "loop"
  /\ UNCHANGED <<beforeText, afterText, ops, beforeView, afterView>>
  /\ UNCHANGED <<metricVars, scoreVars, historyVars, appVars>>

BacktrackFrame ==
  /\ UNCHANGED <<pc, beforeText, afterText, beforeTokens, afterTokens,
                 beforeWords, afterWords, dp, ops, beforeView, afterView>>
  /\ UNCHANGED <<metricVars, scoreVars, historyVars, appVars>>

BacktrackEqual ==
  /\ pc = "loop"
  /\ loopCondition(i, j)
  /\ branch(dp, beforeWords, afterWords, i, j) = "equal"
  /\ result' = unshiftOp(result, Op("equal", beforeWords[i]))
  /\ i' = i - 1
  /\ j' = j - 1
  /\ BacktrackFrame

BacktrackInsert ==
  /\ pc = "loop"
  /\ loopCondition(i, j)
  /\ branch(dp, beforeWords, afterWords, i, j) = "insert"
  /\ result' = unshiftOp(result, Op("insert", afterWords[j]))
  /\ j' = j - 1
  /\ i' = i
  /\ BacktrackFrame

BacktrackDelete ==
  /\ pc = "loop"
  /\ loopCondition(i, j)
  /\ branch(dp, beforeWords, afterWords, i, j) = "delete"
  /\ result' = unshiftOp(result, Op("delete", beforeWords[i]))
  /\ i' = i - 1
  /\ j' = j
  /\ BacktrackFrame

\* the loop ends; backtrack returns result and computeDiff returns it as ops
BacktrackReturn ==
  /\ pc = "loop"
  /\ ~loopCondition(i, j)
  /\ ops' = result
  /\ pc' = "views"
  /\ UNCHANGED <<beforeText, afterText, beforeTokens, afterTokens,
                 beforeWords, afterWords, dp, i, j, result, beforeView, afterView>>
  /\ UNCHANGED <<metricVars, scoreVars, historyVars, appVars>>

GetViews ==
  /\ pc = "views"
  /\ beforeView' = getBeforeView(ops)
  /\ afterView' = getAfterView(ops)
  /\ pc' = "done"
  /\ UNCHANGED <<beforeText, afterText, beforeTokens, afterTokens,
                 beforeWords, afterWords, dp, i, j, result, ops>>
  /\ UNCHANGED <<metricVars, scoreVars, historyVars, appVars>>

Next ==
  \/ ComputeDiff
  \/ BacktrackEqual
  \/ BacktrackInsert
  \/ BacktrackDelete
  \/ BacktrackReturn
  \/ GetViews

Spec == Init /\ [][Next]_vars

(***************************************************************************)
(* One call of analyzeText.                                                *)
(***************************************************************************)
InitMetrics ==
  /\ pc = "analyze"
  /\ text \in MetricTexts
  /\ metrics = zeroMetrics
  /\ beforeText = <<>>
  /\ afterText = <<>>
  /\ DiffIdle
  /\ ScoreIdle
  /\ HistoryIdle
  /\ AppIdle

\* analyzeText returns at its guard
AnalyzeBlank ==
  /\ pc = "analyze"
  /\ takesEarlyReturn(text)
  /\ metrics' = analyzeText(text)
  /\ pc' = "analyzed"
  /\ UNCHANGED <<text, diffVars, scoreVars, historyVars, appVars>>

\* analyzeText computes the metrics
AnalyzeWords ==
  /\ pc = "analyze"
  /\ ~takesEarlyReturn(text)
  /\ metrics' = analyzeText(text)
  /\ pc' = "analyzed"
  /\ UNCHANGED <<text, diffVars, scoreVars, historyVars, appVars>>

NextMetrics ==
  \/ AnalyzeBlank
  \/ AnalyzeWords

SpecMetrics == InitMetrics /\ [][NextMetrics]_vars

(***************************************************************************)
(* One call of calculateImprovementScore.                                  *)
(***************************************************************************)
InitScore ==
  /\ pc = "score"
  /\ beforeMetrics \in ScoreMetrics
  /\ afterMetrics \in ScoreMetrics
  /\ improvementScore = 0
  /\ summary = ""
  /\ beforeText = <<>>
  /\ afterText = <<>>
  /\ DiffIdle
  /\ MetricsIdle
  /\ HistoryIdle
  /\ AppIdle

\* calculateImprovementScore returns at its guard
ScoreNoWords ==
  /\ pc = "score"
  /\ returnsZero(beforeMetrics, afterMetrics)
  /\ improvementScore' = calculateImprovementScore(beforeMetrics, afterMetrics)
  /\ pc' = "scored"
  /\ UNCHANGED <<beforeMetrics, afterMetrics, summary, diffVars, metricVars,
                 historyVars, appVars>>

\* calculateImprovementScore computes the weighted sum
ScoreWeighted ==
  /\ pc = "score"
  /\ ~returnsZero(beforeMetrics, afterMetrics)
  /\ improvementScore' = calculateImprovementScore(beforeMetrics, afterMetrics)
  /\ pc' = "scored"
  /\ UNCHANGED <<beforeMetrics, afterMetrics, summary, diffVars, metricVars,
                 historyVars, appVars>>

NextScore ==
  \/ ScoreNoWords
  \/ ScoreWeighted

SpecScore == InitScore /\ [][NextScore]_vars

(***************************************************************************)
(* Any sequence of calls of computeDiff and analyzeText.  The locals of    *)
(* the last call stay in the state until a later call sets them again; the *)
(* history variables record the first call of each function.               *)
(***************************************************************************)
InitCalls ==
  /\ pc = "idle"
  /\ beforeText = <<>>
  /\ afterText = <<>>
  /\ DiffIdle
  /\ MetricsIdle
  /\ ScoreIdle
  /\ HistoryIdle
  /\ AppIdle

sameDiffCall(A, B) ==
  firstDiff.made /\ firstDiff.beforeText = A /\ firstDiff.afterText = B

sameAnalyzeCall(T) == firstMetrics.made /\ firstMetrics.text = T

\* the caller calls computeDiff(A, B)
RequestDiff ==
  /\ pc = "idle"
  /\ \E A \in CallTexts, B \in CallTexts :
       /\ beforeText' = A
       /\ afterText' = B
       /\ otherSince' = (otherSince \/ (firstDiff.made /\ ~sameDiffCall(A, B)))
  /\ pc' = "call"
  /\ UNCHANGED <<beforeTokens, afterTokens, beforeWords, afterWords, dp, i, j,
                 result, ops, beforeView, afterView>>
  /\ UNCHANGED <<metricVars, scoreVars, firstDiff, firstMetrics,
                 appVars>>

\* the caller has the ops and the views
DiffDone ==
  /\ pc = "done"
  /\ firstDiff' =
       IF firstDiff.made THEN firstDiff
       ELSE [made |-> TRUE, beforeText |-> beforeText, afterText |-> afterText,
             ops |-> ops, beforeView |-> beforeView, afterView |-> afterView]
  /\ pc' = "idle"
  /\ UNCHANGED <<diffVars, metricVars, scoreVars, firstMetrics, otherSince,
                 appVars>>

\* the caller calls analyzeText(T)
RequestAnalyze ==
  /\ pc = "idle"
  /\ \E T \in CallTexts :
       /\ text' = T
       /\ otherSince' = (otherSince \/ firstDiff.made)
  /\ pc' = "analyze"
  /\ UNCHANGED <<metrics, diffVars, scoreVars, firstDiff, firstMetrics,
                 appVars>>

\* the caller has the metrics
AnalyzeDone ==
  /\ pc = "analyzed"
  /\ firstMetrics' =
       IF firstMetrics.made THEN firstMetrics
       ELSE [made |-> TRUE, text |-> text, metrics |-> metrics]
  /\ pc' = "idle"
  /\ UNCHANGED <<diffVars, metricVars, scoreVars, firstDiff, otherSince,
                 appVars>>

NextCalls ==
  \/ RequestDiff
  \/ ComputeDiff
  \/ BacktrackEqual
  \/ BacktrackInsert
  \/ BacktrackDelete
  \/ BacktrackReturn
  \/ GetViews
  \/ DiffDone
  \/ RequestAnalyze
  \/ AnalyzeBlank
  \/ AnalyzeWords
  \/ AnalyzeDone

SpecCalls == InitCalls /\ [][NextCalls]_vars

(***************************************************************************)
(* One call of generateSummary.                                            *)
(***************************************************************************)
InitSummary ==
  /\ pc = "summarize"
  /\ beforeMetrics \in SummaryMetrics
  /\ afterMetrics \in SummaryMetrics
  /\ improvementScore \in SummaryScores
  /\ summary = ""
  /\ beforeText = <<>>
  /\ afterText = <<>>
  /\ DiffIdle
  /\ MetricsIdle
  /\ HistoryIdle
  /\ AppIdle

SummaryFrame ==
  /\ pc' = "summarized"
  /\ UNCHANGED <<beforeMetrics, afterMetrics, improvementScore, diffVars,
                 metricVars, historyVars, appVars>>

\* generateSummary returns at its guard
SummaryNoWords ==
  /\ pc = "summarize"
  /\ beforeMetrics.wordCount = 0 \/ afterMetrics.wordCount = 0
  /\ summary' = generateSummary(beforeMetrics, afterMetrics, improvementScore)
  /\ SummaryFrame

\* generateSummary returns for want of an observation
SummarySimilar ==
  /\ pc = "summarize"
  /\ beforeMetrics.wordCount # 0 /\ afterMetrics.wordCount # 0
  /\ Len(observationsOf(beforeMetrics, afterMetrics)) = 0
  /\ summary' = generateSummary(beforeMetrics, afterMetrics, improvementScore)
  /\ SummaryFrame

\* generateSummary builds the summary of its observations
SummaryBuilt ==
  /\ pc = "summarize"
  /\ beforeMetrics.wordCount # 0 /\ afterMetrics.wordCount # 0
  /\ Len(observationsOf(beforeMetrics, afterMetrics)) # 0
  /\ summary' = generateSummary(beforeMetrics, afterMetrics, improvementScore)
  /\ SummaryFrame

NextSummary ==
  \/ SummaryNoWords
  \/ SummarySimilar
  \/ SummaryBuilt

SpecSummary == InitSummary /\ [][NextSummary]_vars

(***************************************************************************)
(* handleCompare: the guard, computeDiff and the views as in Spec, then    *)
(* analyzeText on each text, the score and the summary.                    *)
(***************************************************************************)
InitCompare ==
  /\ pc = "compare"
  /\ beforeText \in CompareTexts
  /\ afterText \in CompareTexts
  /\ DiffIdle
  /\ MetricsIdle
  /\ ScoreIdle
  /\ HistoryIdle
  /\ AppIdle

\* if (!beforeText.trim() || !afterText.trim()) return
CompareRejected ==
  /\ pc = "compare"
  /\ isBlank(beforeText) \/ isBlank(afterText)
  /\ pc' = "rejected"
  /\ UNCHANGED <<diffVars, metricVars, scoreVars, historyVars, appVars>>

CompareAccepted ==
  /\ pc = "compare"
  /\ ~(isBlank(beforeText) \/ isBlank(afterText))
  /\ pc' = "call"
  /\ UNCHANGED <<diffVars, metricVars, scoreVars, historyVars, appVars>>

AnalyzeBefore ==
  /\ pc = "done"
  /\ beforeMetrics' = analyzeText(beforeText)
  /\ pc' = "analyzeAfter"
  /\ UNCHANGED <<afterMetrics, improvementScore, summary, diffVars,
                 metricVars, historyVars, appVars>>

AnalyzeAfter ==
  /\ pc = "analyzeAfter"
  /\ afterMetrics' = analyzeText(afterText)
  /\ pc' = "scoreCall"
  /\ UNCHANGED <<beforeMetrics, improvementScore, summary, diffVars,
                 metricVars, historyVars, appVars>>

ScoreCompared ==
  /\ pc = "scoreCall"
  /\ improvementScore' = calculateImprovementScore(beforeMetrics, afterMetrics)
  /\ pc' = "summaryCall"
  /\ UNCHANGED <<beforeMetrics, afterMetrics, summary, diffVars, metricVars,
                 historyVars, appVars>>

\* the object handleCompare hands to setResults
resultsOf(bv, av, bm, am, score, sum) ==
  [set |-> TRUE, beforeView |-> bv, afterView |-> av, beforeMetrics |-> bm,
   afterMetrics |-> am, improvementScore |-> score, summary |-> sum]

\* generateSummary, and setResults
SummarizeCompared ==
  /\ pc = "summaryCall"
  /\ summary' = generateSummary(beforeMetrics, afterMetrics, improvementScore)
  /\ results' = resultsOf(beforeView, afterView, beforeMetrics, afterMetrics,
                          improvementScore, summary')
  /\ pc' = "results"
  /\ UNCHANGED <<beforeMetrics, afterMetrics, improvementScore, diffVars,
                 metricVars, historyVars>>
  /\ UNCHANGED <<copied, writesInFlight, timersPending, resetStands>>

NextCompare ==
  \/ CompareRejected
  \/ CompareAccepted
  \/ ComputeDiff
  \/ BacktrackEqual
  \/ BacktrackInsert
  \/ BacktrackDelete
  \/ BacktrackReturn
  \/ GetViews
  \/ AnalyzeBefore
  \/ AnalyzeAfter
  \/ ScoreCompared
  \/ SummarizeCompared

SpecCompare == InitCompare /\ [][NextCompare]_vars

(***************************************************************************)
(* The end of handleCompare on any metrics: the score, then the summary    *)
(* for that score.                                                         *)
(***************************************************************************)
InitScoreSummary ==
  /\ pc = "scoreCall"
  /\ beforeMetrics \in ScoreMetrics
  /\ afterMetrics \in ScoreMetrics
  /\ improvementScore = 0
  /\ summary = ""
  /\ beforeText = <<>>
  /\ afterText = <<>>
  /\ DiffIdle
  /\ MetricsIdle
  /\ HistoryIdle
  /\ AppIdle

NextScoreSummary ==
  \/ ScoreCompared
  \/ SummarizeCompared

SpecScoreSummary == InitScoreSummary /\ [][NextScoreSummary]_vars

(***************************************************************************)
(* The App: its four pieces of state and its handlers.  A handler runs to  *)
(* its end, or to its await, before another starts; handleCompare is the   *)
(* steps of SpecCompare.  The clipboard write of handleCopyResults settles *)
(* in a later task, and each 2000 ms timer fires in a later task still.    *)
(***************************************************************************)
\* SAMPLE_BEFORE and SAMPLE_AFTER, each cut down to one of its sentences
SAMPLE_BEFORE ==
  Chars("Services are offered by us in a wide range of areas.")

SAMPLE_AFTER == Chars("We listen first, then build.")

\* what the user types into a textarea
AppTexts == {Chars(""), Chars(" "), Chars("a b.")}

\* no handler is running
AppAtRest == pc \in {"idle", "results"}

\* const canCompare = beforeText.trim() && afterText.trim()
canCompare == ~isBlank(beforeText) /\ ~isBlank(afterText)

InitApp ==
  /\ pc = "idle"
  /\ beforeText = <<>>
  /\ afterText = <<>>
  /\ DiffIdle
  /\ MetricsIdle
  /\ ScoreIdle
  /\ HistoryIdle
  /\ AppIdle

\* onChange={(e) => setBeforeText(e.target.value)}
TypeBefore ==
  /\ AppAtRest
  /\ \E T \in AppTexts : T # beforeText /\ beforeText' = T
  /\ UNCHANGED <<pc, afterText, beforeTokens, afterTokens, beforeWords,
                 afterWords, dp, i, j, result, ops, beforeView, afterView>>
  /\ UNCHANGED <<metricVars, scoreVars, historyVars, appVars>>

\* onChange={(e) => setAfterText(e.target.value)}
TypeAfter ==
  /\ AppAtRest
  /\ \E T \in AppTexts : T # afterText /\ afterText' = T
  /\ UNCHANGED <<pc, beforeText, beforeTokens, afterTokens, beforeWords,
                 afterWords, dp, i, j, result, ops, beforeView, afterView>>
  /\ UNCHANGED <<metricVars, scoreVars, historyVars, appVars>>

\* the Compare button, disabled unless canCompare: handleCompare starts
ClickCompare ==
  /\ AppAtRest
  /\ canCompare
  /\ pc' = "compare"
  /\ UNCHANGED <<diffVars, metricVars, scoreVars, historyVars, appVars>>

handleLoadExample ==
  /\ AppAtRest
  /\ beforeText' = SAMPLE_BEFORE
  /\ afterText' = SAMPLE_AFTER
  /\ results' = NoResults
  /\ pc' = "idle"
  /\ UNCHANGED <<beforeTokens, afterTokens, beforeWords, afterWords, dp, i, j,
                 result, ops, beforeView, afterView>>
  /\ UNCHANGED <<metricVars, scoreVars, historyVars>>
  /\ UNCHANGED <<copied, writesInFlight, timersPending, resetStands>>

\* the Reset button is there when a textarea has text
handleReset ==
  /\ AppAtRest
  /\ beforeText # <<>> \/ afterText # <<>>
  /\ beforeText' = <<>>
  /\ afterText' = <<>>
  /\ results' = NoResults
  /\ copied' = FALSE
  /\ resetStands' = TRUE
  /\ pc' = "idle"
  /\ UNCHANGED <<beforeTokens, afterTokens, beforeWords, afterWords, dp, i, j,
                 result, ops, beforeView, afterView>>
  /\ UNCHANGED <<metricVars, scoreVars, historyVars>>
  /\ UNCHANGED <<writesInFlight, timersPending>>

\* the copies whose write or whose timer is still to come
copiesUnderWay == writesInFlight + timersPending

\* handleCopyResults up to its await: the text is put together and the
\* clipboard write is started
handleCopyResults ==
  /\ AppAtRest
  /\ results # NoResults
  /\ copiesUnderWay < MaxCopies
  /\ writesInFlight' = writesInFlight + 1
  /\ resetStands' = FALSE
  /\ UNCHANGED <<pc, diffVars, metricVars, scoreVars, historyVars>>
  /\ UNCHANGED <<results, copied, timersPending>>

\* handleCopyResults where navigator.clipboard is missing: writeText throws
\* at once, and the fallback runs within the click
handleCopyResultsFallback ==
  /\ AppAtRest
  /\ results # NoResults
  /\ copiesUnderWay < MaxCopies
  /\ copied' = TRUE
  /\ timersPending' = timersPending + 1
  /\ resetStands' = FALSE
  /\ UNCHANGED <<pc, diffVars, metricVars, scoreVars, historyVars>>
  /\ UNCHANGED <<results, writesInFlight>>

\* the write resolved: setCopied(true), setTimeout(..., 2000)
ClipboardResolved ==
  /\ AppAtRest
  /\ writesInFlight > 0
  /\ writesInFlight' = writesInFlight - 1
  /\ copied' = TRUE
  /\ timersPending' = timersPending + 1
  /\ UNCHANGED <<pc, diffVars, metricVars, scoreVars, historyVars>>
  /\ UNCHANGED <<results, resetStands>>

\* the write rejected: the textarea fallback, setCopied(true), setTimeout
ClipboardRejected ==
  /\ AppAtRest
  /\ writesInFlight > 0
  /\ writesInFlight' = writesInFlight - 1
  /\ copied' = TRUE
  /\ timersPending' = timersPending + 1
  /\ UNCHANGED <<pc, diffVars, metricVars, scoreVars, historyVars>>
  /\ UNCHANGED <<results, resetStands>>

\* () => setCopied(false)
TimerFires ==
  /\ AppAtRest
  /\ timersPending > 0
  /\ timersPending' = timersPending - 1
  /\ copied' = FALSE
  /\ UNCHANGED <<pc, diffVars, metricVars, scoreVars, historyVars>>
  /\ UNCHANGED <<results, writesInFlight, resetStands>>

NextApp ==
  \/ TypeBefore
  \/ TypeAfter
  \/ ClickCompare
  \/ CompareAccepted
  \/ ComputeDiff
  \/ BacktrackEqual
  \/ BacktrackInsert
  \/ BacktrackDelete
  \/ BacktrackReturn
  \/ GetViews
  \/ AnalyzeBefore
  \/ AnalyzeAfter
  \/ ScoreCompared
  \/ SummarizeCompared
  \/ handleLoadExample
  \/ handleReset
  \/ handleCopyResults
  \/ handleCopyResultsFallback
  \/ ClipboardResolved
  \/ ClipboardRejected
  \/ TimerFires

SpecApp == InitApp /\ [][NextApp]_vars

(***************************************************************************)
(* What the claims speak of, stated from the specification's words and not *)
(* through the operators modelling the code.                               *)
(***************************************************************************)
\* the words of a text: its maximal runs of non-whitespace characters, in order
RECURSIVE SplitWords(_, _)
SplitWords(txt, cur) ==
  IF txt = <<>> THEN (IF cur = <<>> THEN <<>> ELSE <<cur>>)
  ELSE IF IsWs(Head(txt))
       THEN (IF cur = <<>> THEN <<>> ELSE <<cur>>) \o SplitWords(Tail(txt), <<>>)
       ELSE SplitWords(Tail(txt), Append(cur, Head(txt)))

WordsOfText(txt) == SplitWords(txt, <<>>)

Wordless(txt) == \A k \in 1..Len(txt) : IsWs(txt[k])

\* the values of the ops whose type is in types, in order
RECURSIVE OpValues(_, _)
OpValues(os, types) ==
  IF os = <<>> THEN <<>>
  ELSE IF Head(os).type \in types
       THEN <<Head(os).value>> \o OpValues(Tail(os), types)
       ELSE OpValues(Tail(os), types)

\* the LCS length of the first r words of a and the first c words of b
RECURSIVE LcsLength(_, _, _, _)
LcsLength(a, b, r, c) ==
  IF r = 0 \/ c = 0 THEN 0
  ELSE IF a[r] = b[c] THEN LcsLength(a, b, r - 1, c - 1) + 1
  ELSE Max(LcsLength(a, b, r - 1, c), LcsLength(a, b, r, c - 1))

\* the ops of type in keep, each as a display segment highlighted when of type hl
RECURSIVE Projection(_, _, _)
Projection(os, keep, hl) ==
  IF os = <<>> THEN <<>>
  ELSE IF Head(os).type \in keep
       THEN <<[text |-> Head(os).value, highlighted |-> (Head(os).type = hl)]>>
              \o Projection(Tail(os), keep, hl)
       ELSE Projection(Tail(os), keep, hl)

RECURSIVE Unhighlighted(_)
Unhighlighted(view) ==
  IF view = <<>> THEN <<>>
  ELSE IF Head(view).highlighted THEN Unhighlighted(Tail(view))
  ELSE <<Head(view).text>> \o Unhighlighted(Tail(view))

RECURSIVE Concat(_)
Concat(tokens) ==
  IF tokens = <<>> THEN <<>> ELSE Head(tokens) \o Concat(Tail(tokens))

Returned == pc \in {"views", "done"}

(***************************************************************************)
(* C1: the ops computeDiff returns are a valid edit script: the values of  *)
(* the equal and delete ops, in order, are the words of the before text,   *)
(* and the values of the equal and insert ops, in order, are the words of  *)
(* the after text.                                                         *)
(***************************************************************************)
C1_ValidEditScript ==
  Returned =>
    /\ OpValues(ops, {"equal", "delete"}) = WordsOfText(beforeText)
    /\ OpValues(ops, {"equal", "insert"}) = WordsOfText(afterText)
    /\ \A k \in 1..Len(ops) : ops[k].type \in {"equal", "insert", "delete"}

\* a script with all three kinds of op has been returned
C1_Witness ==
  /\ pc = "done"
  /\ \E k \in 1..Len(ops) : ops[k].type = "equal"
  /\ \E k \in 1..Len(ops) : ops[k].type = "insert"
  /\ \E k \in 1..Len(ops) : ops[k].type = "delete"

(***************************************************************************)
(* C2: every iteration of the backtracking loop follows the stated policy: *)
(* equal and a diagonal move when both indices are positive and the words  *)
(* match; otherwise insert of B[j-1] when j > 0 and (i = 0 or the LCS      *)
(* length left of the cell is at least the one above it); otherwise delete *)
(* of A[i-1]; the op is put in front of the ops found so far.  Replacing   *)
(* one word x by another word y gives [delete x, insert y].                *)
(***************************************************************************)
PolicyStep ==
  IF i > 0 /\ j > 0 /\ beforeWords[i] = afterWords[j]
  THEN /\ result' = <<Op("equal", beforeWords[i])>> \o result
       /\ i' = i - 1
       /\ j' = j - 1
  ELSE IF /\ j > 0
          /\ \/ i = 0
             \/ LcsLength(beforeWords, afterWords, i, j - 1)
                  >= LcsLength(beforeWords, afterWords, i - 1, j)
       THEN /\ result' = <<Op("insert", afterWords[j])>> \o result
            /\ i' = i
            /\ j' = j - 1
       ELSE /\ result' = <<Op("delete", beforeWords[i])>> \o result
            /\ i' = i - 1
            /\ j' = j

OneWordReplaced ==
  /\ Len(beforeWords) = 1
  /\ Len(afterWords) = 1
  /\ beforeWords[1] # afterWords[1]

C2_BacktrackPolicy ==
  [][/\ (pc = "loop" /\ (i > 0 \/ j > 0)) => PolicyStep
     /\ (pc = "loop" /\ pc' = "views" /\ OneWordReplaced) =>
          ops' = <<Op("delete", beforeWords[1]), Op("insert", afterWords[1])>>
    ]_vars

\* one word was replaced by another: the two predecessor cells tie, insert was
\* taken first while walking back, so it comes last
C2_Witness ==
  /\ pc = "done"
  /\ OneWordReplaced
  /\ Len(ops) = 2
  /\ ops[2].type = "insert"

(***************************************************************************)
(* C3: for identical texts every op is of type equal and the values of the *)
(* ops, in order, are the words of the text.                               *)
(***************************************************************************)
C3_IdenticalTexts ==
  (Returned /\ beforeText = afterText) =>
    /\ \A k \in 1..Len(ops) : ops[k].type = "equal"
    /\ OpValues(ops, {"equal", "insert", "delete"}) = WordsOfText(beforeText)

\* identical texts with a repeated word have been compared
C3_Witness ==
  /\ pc = "done"
  /\ beforeText = afterText
  /\ Len(ops) >= 3
  /\ ops[1].value = ops[2].value

(***************************************************************************)
(* C4: with no word on either side the ops are empty; with no word in the  *)
(* after text the ops are one delete per word of the before text, in       *)
(* order; with no word in the before text they are one insert per word of  *)
(* the after text, in order; the views of an empty op list are empty.      *)
(***************************************************************************)
C4_WordlessSides ==
  /\ (Returned /\ Wordless(beforeText) /\ Wordless(afterText)) => ops = <<>>
  /\ (Returned /\ Wordless(afterText)) =>
       ops = [k \in 1..Len(WordsOfText(beforeText)) |->
                Op("delete", WordsOfText(beforeText)[k])]
  /\ (Returned /\ Wordless(beforeText)) =>
       ops = [k \in 1..Len(WordsOfText(afterText)) |->
                Op("insert", WordsOfText(afterText)[k])]
  /\ (pc = "done" /\ ops = <<>>) => (beforeView = <<>> /\ afterView = <<>>)

\* a before text of two words was compared with a whitespace-only after text
C4_Witness ==
  /\ pc = "done"
  /\ afterText # <<>>
  /\ Wordless(afterText)
  /\ Len(ops) = 2
  /\ beforeView # <<>>
  /\ afterView = <<>>

C6_ViewProjections ==
  [][pc = "views" =>
       /\ ops' = ops
       /\ beforeView' = Projection(ops, {"equal", "delete"}, "delete")
       /\ afterView' = Projection(ops, {"equal", "insert"}, "insert")
       /\ Unhighlighted(beforeView') = Unhighlighted(afterView')
    ]_vars

\* both views hold a highlighted and an unhighlighted segment
C6_Witness ==
  /\ pc = "done"
  /\ \E k \in 1..Len(beforeView) : beforeView[k].highlighted
  /\ \E k \in 1..Len(afterView) : afterView[k].highlighted
  /\ \E k \in 1..Len(afterView) : ~afterView[k].highlighted
  /\ Len(beforeView) < Len(ops)
  /\ Len(afterView) < Len(ops)

(***************************************************************************)
(* C7: the tokens of a text, concatenated in order, are the text; every    *)
(* token is non-empty and is all whitespace or all non-whitespace; two     *)
(* adjacent tokens are of different kinds; the empty text has no token;    *)
(* the words aligned are the tokens that are not whitespace, in order.     *)
(***************************************************************************)
IsPartition(tokens, txt) ==
  /\ Concat(tokens) = txt
  /\ \A k \in 1..Len(tokens) :
       /\ tokens[k] # <<>>
       /\ \/ \A q \in 1..Len(tokens[k]) : IsWs(tokens[k][q])
          \/ \A q \in 1..Len(tokens[k]) : ~IsWs(tokens[k][q])
  /\ \A k \in 1..(Len(tokens) - 1) :
       IsWs(tokens[k][1]) # IsWs(tokens[k + 1][1])
  /\ (txt = <<>>) => (tokens = <<>>)

NotWhitespace(t) == \E q \in 1..Len(t) : ~IsWs(t[q])

C7_TokenizePartitions ==
  pc # "call" =>
    /\ IsPartition(beforeTokens, beforeText)
    /\ IsPartition(afterTokens, afterText)
    /\ beforeWords = SelectSeq(beforeTokens, NotWhitespace)
    /\ afterWords = SelectSeq(afterTokens, NotWhitespace)

\* a text with a whitespace run of two characters between other tokens, and a
\* text with a word of two characters, have been tokenized
C7_Witness ==
  /\ pc = "done"
  /\ Len(beforeTokens) = 2
  /\ \E k \in 1..Len(beforeTokens) :
       Len(beforeTokens[k]) = 2 /\ IsWs(beforeTokens[k][1])
          /\ beforeTokens[k][1] # beforeTokens[k][2]
  /\ \E k \in 1..Len(afterTokens) :
       Len(afterTokens[k]) = 2 /\ ~IsWs(afterTokens[k][1])
  /\ Len(afterTokens) > Len(afterWords)

(***************************************************************************)
(* C8: for an empty or whitespace-only text analyzeText returns metrics    *)
(* with the nine fields wordCount, sentenceCount, avgSentenceLength,       *)
(* fleschKincaidGrade, fleschReadingEase, readingTime, passiveVoiceCount,  *)
(* adverbCount and syllableCount, each of them 0.                          *)
(***************************************************************************)
MetricFields ==
  {"wordCount", "sentenceCount", "avgSentenceLength", "fleschKincaidGrade",
   "fleschReadingEase", "readingTime", "passiveVoiceCount", "adverbCount",
   "syllableCount"}

C8_BlankTextZeroMetrics ==
  (pc = "analyzed" /\ Wordless(text)) =>
    /\ DOMAIN metrics = MetricFields
    /\ \A f \in MetricFields : metrics[f] = 0

\* a text of several kinds of whitespace has been analyzed
C8_Witness ==
  /\ pc = "analyzed"
  /\ Len(text) >= 2
  /\ Wordless(text)
  /\ \E k \in 1..Len(text) : text[k] # text[1]
  /\ metrics.sentenceCount = 0

(***************************************************************************)
(* C9: the metrics analyzeText returns have a fleschReadingEase from 0 to  *)
(* 100 and a fleschKincaidGrade of at least 0 (in tenths: 0 to 1000, and   *)
(* at least 0).                                                            *)
(***************************************************************************)
C9_ScoresInRange ==
  pc = "analyzed" =>
    /\ metrics.fleschReadingEase >= 0
    /\ metrics.fleschReadingEase <= 1000
    /\ metrics.fleschKincaidGrade >= 0

\* a text whose reading ease is above 100 and whose grade is below 0 before
\* the clamps has been analyzed
C9_Witness ==
  /\ pc = "analyzed"
  /\ metrics.wordCount > 0
  /\ easeNum(metrics.wordCount, metrics.sentenceCount, metrics.syllableCount)
       > 100 * easeDen(metrics.wordCount, metrics.sentenceCount)
  /\ gradeNum(metrics.wordCount, metrics.sentenceCount, metrics.syllableCount) < 0
  /\ metrics.fleschReadingEase = 1000
  /\ metrics.fleschKincaidGrade = 0

(***************************************************************************)
(* C10: calculateImprovementScore returns 0 whenever the wordCount of the  *)
(* before metrics or of the after metrics is 0, whatever the other fields. *)
(***************************************************************************)
C10_NoWordsScoreZero ==
  (pc = "scored" /\ (beforeMetrics.wordCount = 0 \/ afterMetrics.wordCount = 0)) =>
    improvementScore = 0

\* metrics with no word on one side only, whose weighted sum is not 0, have
\* been scored
C10_Witness ==
  /\ pc = "scored"
  /\ beforeMetrics.wordCount = 0
  /\ afterMetrics.wordCount > 0
  /\ beforeMetrics.fleschReadingEase > 0
  /\ totalScore(beforeMetrics, afterMetrics)[1] > totalScore(beforeMetrics, afterMetrics)[2]
  /\ improvementScore = 0

(***************************************************************************)
(* C11: with both word counts nonzero, a metric whose before value is 0    *)
(* adds nothing to the total, except that a passiveVoiceCount going from 0 *)
(* to a positive value takes 0.075 off the total and an adverbCount going  *)
(* from 0 to a positive value takes 0.05 off, however large the after      *)
(* value is; the score is the total times 100, rounded to the nearest      *)
(* integer, a tie going up.                                                *)
(***************************************************************************)
\* the weights as the specification gives them, in hundredths
StatedWeight ==
  [fleschReadingEase |-> 30, fleschKincaidGrade |-> 25, avgSentenceLength |-> 20,
   passiveVoiceCount |-> 15, adverbCount |-> 10]

RECURSIVE LeastMultiple(_)
LeastMultiple(S) ==
  IF S = {} THEN 1
  ELSE LET x == CHOOSE y \in S : TRUE
           r == LeastMultiple(S \ {x})
       IN  (x * r) \div Gcd(x, r)

\* twice the least common multiple of the positive before values
StatedUnit(bm) ==
  2 * LeastMultiple({bm[f] : f \in DOMAIN StatedWeight} \ {0})

\* what the metric f adds to the total, in hundredths, times StatedUnit(bm)
StatedShare(f, bm, am) ==
  IF bm[f] > 0
  THEN LET gain == IF f = "fleschReadingEase" THEN am[f] - bm[f]
                   ELSE bm[f] - am[f]
       IN  StatedWeight[f] * gain * (StatedUnit(bm) \div bm[f])
  ELSE IF f \in {"passiveVoiceCount", "adverbCount"} /\ am[f] > 0
  THEN 0 - StatedWeight[f] * (StatedUnit(bm) \div 2)
  ELSE 0

StatedTotal(bm, am) ==
  StatedShare("fleschReadingEase", bm, am)
    + StatedShare("fleschKincaidGrade", bm, am)
    + StatedShare("avgSentenceLength", bm, am)
    + StatedShare("passiveVoiceCount", bm, am)
    + StatedShare("adverbCount", bm, am)

C11_ZeroBeforeAndPenalties ==
  (pc = "scored" /\ beforeMetrics.wordCount # 0 /\ afterMetrics.wordCount # 0) =>
    LET n == StatedTotal(beforeMetrics, afterMetrics)
        d == StatedUnit(beforeMetrics)
    IN  /\ 2 * d * improvementScore <= 2 * n + d
        /\ 2 * n + d < 2 * d * (improvementScore + 1)

\* metrics whose reading ease, passive voice count and adverb count go from
\* 0 to positive values, with more than one passive phrase, have been scored
C11_Witness ==
  /\ pc = "scored"
  /\ beforeMetrics.wordCount # 0
  /\ afterMetrics.wordCount # 0
  /\ beforeMetrics.fleschReadingEase = 0
  /\ afterMetrics.fleschReadingEase > 0
  /\ beforeMetrics.fleschKincaidGrade > 0
  /\ beforeMetrics.passiveVoiceCount = 0
  /\ afterMetrics.passiveVoiceCount > 1
  /\ beforeMetrics.adverbCount = 0
  /\ afterMetrics.adverbCount > 0
  /\ improvementScore < 0

(***************************************************************************)
(* C12: for the end-to-end example (before "It should be noted that our    *)
(* approach is fundamentally different.", after "Our approach is           *)
(* different.") the after metrics have a lower wordCount and a lower       *)
(* adverbCount than the before metrics, and the improvement score is       *)
(* strictly positive.                                                      *)
(***************************************************************************)
ExampleCompared ==
  /\ pc = "results"
  /\ beforeText = ExampleBefore
  /\ afterText = ExampleAfter

C12_ExampleImproves ==
  ExampleCompared =>
    /\ afterMetrics.wordCount < beforeMetrics.wordCount
    /\ afterMetrics.adverbCount < beforeMetrics.adverbCount
    /\ improvementScore > 0

\* the example has been compared: ten words, one of them an adverb, against
\* four words
C12_Witness ==
  /\ ExampleCompared
  /\ beforeMetrics.wordCount = 10
  /\ beforeMetrics.adverbCount = 1
  /\ afterMetrics.wordCount = 4

Includes(str, part) ==
  \E k \in 1..(Len(str) - Len(part) + 1) : SubSeq(str, k, k + Len(part) - 1) = part

Magnitude(x) == IF x < 0 THEN 0 - x ELSE x

\* the thresholds of the five observations, one-decimal numbers in tenths
ObservationMade(bm, am) ==
  \/ Magnitude(am.wordCount - bm.wordCount) > 10
  \/ Magnitude(am.fleschKincaidGrade - bm.fleschKincaidGrade) > 10
  \/ Magnitude(am.avgSentenceLength - bm.avgSentenceLength) > 30
  \/ am.passiveVoiceCount # bm.passiveVoiceCount
  \/ Magnitude(am.adverbCount - bm.adverbCount) > 2

ClosingRemarks ==
  {"Overall, this is a stronger version for a wider audience.",
   "Consider simplifying sentences and using more direct language.",
   "The readability is roughly the same as the original."}

RemarkFor(score) ==
  IF score > 5
  THEN "Overall, this is a stronger version for a wider audience."
  ELSE IF score < -5
  THEN "Consider simplifying sentences and using more direct language."
  ELSE "The readability is roughly the same as the original."

RemarksIncluded == {r \in ClosingRemarks : Includes(summary, r)}

SummaryOfWords ==
  /\ pc = "summarized"
  /\ beforeMetrics.wordCount # 0
  /\ afterMetrics.wordCount # 0

C15_ClosingRemarkAlways ==
  SummaryOfWords => RemarksIncluded = {RemarkFor(improvementScore)}

C15_ClosingRemarkWithObservations ==
  SummaryOfWords =>
    IF ObservationMade(beforeMetrics, afterMetrics)
    THEN RemarksIncluded = {RemarkFor(improvementScore)}
    ELSE RemarksIncluded = {}

\* a summary of several observations has been made for a score of exactly 5
C15_Witness ==
  /\ SummaryOfWords
  /\ improvementScore = 5
  /\ Magnitude(afterMetrics.wordCount - beforeMetrics.wordCount) > 10
  /\ afterMetrics.passiveVoiceCount # beforeMetrics.passiveVoiceCount
  /\ Includes(summary, "The readability is roughly the same as the original.")

(***************************************************************************)
(* C16: for metrics with nonzero word counts the summary ends with the     *)
(* sentence-length tip, naming the after-text average, whenever that       *)
(* average is greater than 20, and has no tip when it is 20 or less.  That *)
(* is the claim as made, C16_TipAlways, which the code refutes: when no    *)
(* observation is made, the summary is the "very similar" sentence alone,  *)
(* whatever the average.  As amended: when at least one observation is     *)
(* made the tip is appended exactly when the average is greater than 20,   *)
(* and when none is made it is never appended.                             *)
(***************************************************************************)
\* a number of tenths as a decimal numeral
Decimal(n) ==
  IF n % 10 = 0 THEN ToString(n \div 10)
  ELSE ToString(n \div 10) \o "." \o ToString(n % 10)

TipFor(am) ==
  "Tip: Your average sentence is " \o Decimal(am.avgSentenceLength)
    \o " words. Consider breaking up sentences longer than 20 words."

HasTip == Includes(summary, "Tip:")

EndsWithTipFor(am) ==
  /\ Len(summary) > Len(TipFor(am))
  /\ SubSeq(summary, Len(summary) - Len(TipFor(am)) + 1, Len(summary)) = TipFor(am)

C16_TipAlways ==
  SummaryOfWords =>
    IF afterMetrics.avgSentenceLength > 200
    THEN EndsWithTipFor(afterMetrics)
    ELSE ~HasTip

C16_TipWithObservations ==
  SummaryOfWords =>
    IF /\ ObservationMade(beforeMetrics, afterMetrics)
       /\ afterMetrics.avgSentenceLength > 200
    THEN EndsWithTipFor(afterMetrics)
    ELSE ~HasTip

\* a summary with a tip for an average of 20.1 words has been made, the
\* before text having an average of exactly 20
C16_Witness ==
  /\ SummaryOfWords
  /\ beforeMetrics.avgSentenceLength = 200
  /\ afterMetrics.avgSentenceLength = 201
  /\ Includes(summary, "Your average sentence is 20.1 words.")

(***************************************************************************)
(* C17: countSyllables returns at least 1 for every word the word split of *)
(* analyzeText produces, and exactly 1 when the word has at most 2 letters *)
(* after lower-casing and stripping non-letters, so that the syllableCount *)
(* of analyzeText is at least its wordCount for every text.  The code      *)
(* refutes it: between two digits a hyphen or an apostrophe alone is a     *)
(* word of the split, and countSyllables returns 0 for a word without a    *)
(* letter.                                                                 *)
(***************************************************************************)
LetterCount(w) == Cardinality({k \in 1..Len(w) : IsLetter(w[k])})

C17_SyllableFloor ==
  pc = "analyzed" =>
    /\ \A k \in 1..Len(splitWords(text)) :
         LET w == splitWords(text)[k]
         IN  /\ countSyllables(w) >= 1
             /\ LetterCount(w) <= 2 => countSyllables(w) = 1
    /\ metrics.syllableCount >= metrics.wordCount

(***************************************************************************)
(* C18: for a text with a character that is not whitespace, analyzeText    *)
(* returns a sentenceCount of at least 1, also when the text has no '.',   *)
(* '!' or '?' or has nothing else; the sentenceCount is the number of      *)
(* non-blank fragments between the runs of '.', '!' and '?' when there is  *)
(* one; avgSentenceLength is wordCount / sentenceCount rounded to one      *)
(* decimal, the divisor not being 0.                                       *)
(***************************************************************************)
\* the first positions of the non-blank fragments left between the runs of
\* '.', '!' and '?'
FragmentStarts(txt) ==
  {p \in 1..Len(txt) :
     /\ ~IsEnder(txt[p])
     /\ p = 1 \/ IsEnder(txt[p - 1])
     /\ \E q \in p..Len(txt) :
          /\ ~IsWs(txt[q])
          /\ \A k \in p..q : ~IsEnder(txt[k])}

CountOps(os, type) == Len(OpValues(os, {type}))

C19_LongestCommonSubsequence ==
  Returned =>
    LET m == Len(WordsOfText(beforeText))
        n == Len(WordsOfText(afterText))
        L == LcsLength(WordsOfText(beforeText), WordsOfText(afterText), m, n)
    IN  /\ dp[m][n] = L
        /\ CountOps(ops, "equal") = L
        /\ CountOps(ops, "delete") = m - L
        /\ CountOps(ops, "insert") = n - L

\* texts whose longest common subsequence is not a prefix or a suffix of
\* either have been aligned: equal ops with a delete and an insert between
C19_Witness ==
  /\ Returned
  /\ CountOps(ops, "equal") >= 2
  /\ \E k \in 2..Len(ops) - 1 :
       /\ ops[k].type # "equal"
       /\ ops[k - 1].type = "equal"
       /\ \E q \in k + 1..Len(ops) : ops[q].type = "equal"
  /\ CountOps(ops, "delete") >= 1
  /\ CountOps(ops, "insert") >= 1

(***************************************************************************)
(* C20: the backtracking loop terminates: every iteration lowers i + j and *)
(* leaves i and j at 0 or more; the equal branch is taken only with i > 0  *)
(* and j > 0, the insert branch only with j > 0 and the delete branch only *)
(* with i > 0, so that every read of a word or of the table is in bounds;  *)
(* the loop ends with i = j = 0 after at most m + n iterations.  While the *)
(* loop runs a step can be taken, and Len(result) + i + j never grows      *)
(* while Len(result) does, so no run stays in the loop.                    *)
(***************************************************************************)
\* an iteration of the loop: an op is put in front of result
Iteration == pc = "loop" /\ result' # result

IterationInBounds ==
  Iteration =>
    /\ i' + j' < i + j
    /\ i' >= 0 /\ j' >= 0
    /\ Head(result').type = "equal" =>
         i > 0 /\ j > 0 /\ i' = i - 1 /\ j' = j - 1
    /\ Head(result').type = "insert" => j > 0 /\ i' = i /\ j' = j - 1
    /\ Head(result').type = "delete" => i > 0 /\ i' = i - 1 /\ j' = j
    /\ i \in DOMAIN dp /\ j \in DOMAIN dp[i]
    /\ i' \in DOMAIN dp /\ j' \in DOMAIN dp[i']

\* the iterations made and the ones that can still be made are at most m + n
IterationsBounded ==
  pc = "loop" =>
    /\ i >= 0 /\ j >= 0
    /\ Len(result) + i + j <= Len(beforeWords) + Len(afterWords)

LoopEnded ==
  Returned =>
    /\ i = 0 /\ j = 0
    /\ Len(ops) <= Len(beforeWords) + Len(afterWords)

\* in the loop either an iteration or the return can be taken
LoopProgresses == pc = "loop" => ENABLED Next

C20_BacktrackTerminates ==
  /\ [][IterationInBounds]_vars
  /\ [](IterationsBounded /\ LoopProgresses /\ LoopEnded)

\* a loop of m + n iterations has ended: no word in common
C20_Witness ==
  /\ Returned
  /\ Len(beforeWords) >= 2
  /\ Len(afterWords) >= 2
  /\ Len(ops) = Len(beforeWords) + Len(afterWords)
  /\ i = 0 /\ j = 0

(***************************************************************************)
(* C21: whenever analyzeText returns a wordCount of 0, every other field   *)
(* of the metrics is 0 as well.  That is the claim as made,                *)
(* C21_NoWordsAllZero, which the code refutes: a text without a word that  *)
(* is not blank, such as ".", passes the guard and gets a sentenceCount of *)
(* at least 1.  As amended: with a wordCount of 0 every other field is 0   *)
(* except sentenceCount, which is 0 for an empty or whitespace-only text   *)
(* and at least 1 for any other text.                                      *)
(***************************************************************************)
C21_NoWordsAllZero ==
  (pc = "analyzed" /\ metrics.wordCount = 0) =>
    \A f \in MetricFields : metrics[f] = 0

C21_NoWordsZeroButSentences ==
  (pc = "analyzed" /\ metrics.wordCount = 0) =>
    /\ \A f \in MetricFields \ {"sentenceCount"} : metrics[f] = 0
    /\ Wordless(text) => metrics.sentenceCount = 0
    /\ ~Wordless(text) => metrics.sentenceCount >= 1

\* a text of two fragments and no word has been analyzed
C21_Witness ==
  /\ pc = "analyzed"
  /\ ~Wordless(text)
  /\ metrics.wordCount = 0
  /\ metrics.sentenceCount = 2

(***************************************************************************)
(* C22: comparing metrics M of a wordCount above 0 with themselves gives   *)
(* the score 0, also when the passiveVoiceCount or the adverbCount of M is *)
(* 0, and the summary for M, M and the score 0 reports no observation: it  *)
(* is the sentence for two versions that are very similar.                 *)
(***************************************************************************)
SelfCompared ==
  /\ pc = "results"
  /\ beforeMetrics = afterMetrics
  /\ beforeMetrics.wordCount > 0

C22_SelfComparisonScoresZero ==
  SelfCompared =>
    /\ improvementScore = 0
    /\ summary = "The two versions are very similar in readability. "
                   \o "The differences are minimal."

\* metrics without passive voice and without an adverb, the other scored
\* fields above 0, have been compared with themselves
C22_Witness ==
  /\ SelfCompared
  /\ beforeMetrics.passiveVoiceCount = 0
  /\ beforeMetrics.adverbCount = 0
  /\ beforeMetrics.fleschReadingEase > 0
  /\ beforeMetrics.fleschKincaidGrade > 0
  /\ beforeMetrics.avgSentenceLength > 200
  /\ Len(summary) > 0

(***************************************************************************)
(* C23.  After handleReset has run, copied is false and stays false until  *)
(* the user starts a new copy with handleCopyResults, whatever clipboard   *)
(* writes are in flight and whatever timers are pending; and copied is     *)
(* never true while results is null.                                       *)
(***************************************************************************)
C23_CopiedFalseAfterReset ==
  /\ resetStands => copied = FALSE
  /\ results = NoResults => copied = FALSE

\* the first half alone: Reset, and no copy started since
C23_ResetHolds == resetStands => copied = FALSE

\* the second half alone
C23_NoCopiedWithoutResults == results = NoResults => copied = FALSE

\* Reset ran while a clipboard write was in flight
C23_ResetDuringWrite ==
  resetStands /\ writesInFlight > 0 /\ results = NoResults /\ copied = FALSE

=============================================================================
